---------------------------- MODULE Spec2Model ----------------------------
(***************************************************************************)
(* AIGovLens (src/app.py): the evaluation and reporting pipeline of the    *)
(* Streamlit script.  One run of main() is one step: a button click (or a  *)
(* plain rerun) executes the whole script, which validates the form, calls *)
(* evaluate_use_case, stores the result in st.session_state and renders    *)
(* the Results tab (on-screen cards, the PDF report and the JSON export).  *)
(*                                                                         *)
(* Texts are TLA+ strings.  The grave accent cannot be written inside a    *)
(* TLA+ string literal, so the character "~" stands for it everywhere: the *)
(* Markdown fence marker of the source (three grave accents) is "~~~".     *)
(*                                                                         *)
(* Python values are tagged pairs <<type, payload>>:                       *)
(*   <<"NoneType", "None">>  <<"bool", TRUE>>  <<"int", 78>>               *)
(*   <<"float", "78.5">> (payload: the repr)   <<"str", "HIGH">>           *)
(*   <<"list", <<v1, ..., vn>> >>                                          *)
(*   <<"dict", << <<k1, v1>>, ..., <<kn, vn>> >> >> (insertion order, keys *)
(*   are strings and pairwise different)                                   *)
(***************************************************************************)
EXTENDS Integers, Sequences, FiniteSets, TLC

(***************************************************************************)
(* Python values                                                           *)
(***************************************************************************)
None == <<"NoneType", "None">>

PyBool(b) == <<"bool", b>>

PyInt(n) == <<"int", n>>

PyFloat(repr) == <<"float", repr>>

PyStr(s) == <<"str", s>>

PyList(items) == <<"list", items>>

PyDict(pairs) == <<"dict", pairs>>

TypeOf(v) == v[1]

\* bool(v): None, False, 0, 0.0, "", [] and {} are falsy, all else is truthy.
Truthy(v) ==
    CASE TypeOf(v) = "NoneType" -> FALSE
      [] TypeOf(v) = "bool" -> v[2]
      [] TypeOf(v) = "int" -> v[2] # 0
      [] TypeOf(v) = "float" -> v[2] \notin {"0.0", "-0.0"}
      [] TypeOf(v) = "str" -> v[2] # ""
      [] TypeOf(v) = "list" -> Len(v[2]) > 0
      [] TypeOf(v) = "dict" -> Len(v[2]) > 0

\* key in d
HasKey(d, key) == \E i \in 1..Len(d[2]) : d[2][i][1] = key

\* d[key], for a key that is present
Item(d, key) == d[2][CHOOSE i \in 1..Len(d[2]) : d[2][i][1] = key][2]

\* d.get(key, default)
Get(d, key, default) == IF HasKey(d, key) THEN Item(d, key) ELSE default

\* d[key] = value: an existing key keeps its place, a new key goes last.
SetItem(d, key, value) ==
    IF HasKey(d, key)
    THEN PyDict([i \in 1..Len(d[2]) |->
                    IF d[2][i][1] = key THEN <<key, value>> ELSE d[2][i]])
    ELSE PyDict(Append(d[2], <<key, value>>))

Keys(d) == {d[2][i][1] : i \in 1..Len(d[2])}

(***************************************************************************)
(* json.loads (the standard library's decoder, as evaluate_use_case uses   *)
(* it).  The decoder is modelled on the texts the model draws: objects,    *)
(* arrays, strings with the escapes \" \\ \/ \n \t, integers, decimal      *)
(* fractions, true, false, null and NaN; exponents and \u escapes do not   *)
(* occur in them.  A scan yields [ok, val, end]: end is the index after    *)
(* the value.                                                              *)
(***************************************************************************)
CharAt(s, i) == IF i >= 1 /\ i <= Len(s) THEN SubSeq(s, i, i) ELSE ""

\* s[i:].startswith(p), with the 1-based index i
StartsAt(s, i, p) ==
    /\ i >= 1
    /\ i + Len(p) - 1 <= Len(s)
    /\ SubSeq(s, i, i + Len(p) - 1) = p

JsonWhitespace == {" ", "\t", "\n", "\r"}

Digits == {"0", "1", "2", "3", "4", "5", "6", "7", "8", "9"}

DigitVal(c) ==
    CASE c = "0" -> 0 [] c = "1" -> 1 [] c = "2" -> 2 [] c = "3" -> 3
      [] c = "4" -> 4 [] c = "5" -> 5 [] c = "6" -> 6 [] c = "7" -> 7
      [] c = "8" -> 8 [] c = "9" -> 9

Fail(i) == [ok |-> FALSE, val |-> None, end |-> i]

Scanned(v, i) == [ok |-> TRUE, val |-> v, end |-> i]

RECURSIVE SkipWs(_, _)
SkipWs(s, i) == IF CharAt(s, i) \in JsonWhitespace THEN SkipWs(s, i + 1) ELSE i

\* The index after the run of digits that starts at i.
RECURSIVE DigitsEnd(_, _)
DigitsEnd(s, i) == IF CharAt(s, i) \in Digits THEN DigitsEnd(s, i + 1) ELSE i

RECURSIVE IntOf(_)
IntOf(digits) ==
    IF digits = "" THEN 0
    ELSE 10 * IntOf(SubSeq(digits, 1, Len(digits) - 1))
         + DigitVal(SubSeq(digits, Len(digits), Len(digits)))

RECURSIVE StripZeros(_)
StripZeros(frac) ==
    IF Len(frac) > 1 /\ SubSeq(frac, Len(frac), Len(frac)) = "0"
    THEN StripZeros(SubSeq(frac, 1, Len(frac) - 1))
    ELSE frac

\* NUMBER_RE: -?(0|[1-9][0-9]*)(\.[0-9]+)? matched at i; what follows the match
\* is the caller's business.
ScanNumber(s, i) ==
    LET neg == CharAt(s, i) = "-"
        a == IF neg THEN i + 1 ELSE i
        b == IF CharAt(s, a) = "0" THEN a + 1 ELSE DigitsEnd(s, a)
        c == IF CharAt(s, b) = "." THEN DigitsEnd(s, b + 1) ELSE b
        isFloat == c > b + 1
        intpart == SubSeq(s, a, b - 1)
    IN  IF b = a THEN Fail(i)
        ELSE IF isFloat
        THEN Scanned(PyFloat((IF neg THEN "-" ELSE "") \o intpart \o "."
                             \o StripZeros(SubSeq(s, b + 1, c - 1))), c)
        ELSE Scanned(PyInt(IF neg THEN 0 - IntOf(intpart) ELSE IntOf(intpart)), b)

Unescape(c) ==
    CASE c = "n" -> "\n" [] c = "t" -> "\t" [] c = "r" -> "\r" [] OTHER -> c

\* py_scanstring, strict: i is the index after the opening quote.
RECURSIVE ScanString(_, _, _)
ScanString(s, i, acc) ==
    LET c == CharAt(s, i)
    IN  CASE c = "" -> Fail(i)
          [] c = "\"" -> Scanned(PyStr(acc), i + 1)
          [] c \in {"\n", "\t", "\r"} -> Fail(i)
          [] c = "\\" ->
               IF CharAt(s, i + 1) \in {"\"", "\\", "/", "n", "t", "r"}
               THEN ScanString(s, i + 2, acc \o Unescape(CharAt(s, i + 1)))
               ELSE Fail(i)
          [] OTHER -> ScanString(s, i + 1, acc \o c)

RECURSIVE ScanOnce(_, _)
RECURSIVE ScanObject(_, _, _)
RECURSIVE ScanArray(_, _, _)

\* JSONObject: i is at a key's opening quote; d holds the pairs read so far.
ScanObject(s, i, d) ==
    IF CharAt(s, i) # "\"" THEN Fail(i)
    ELSE
    LET key == ScanString(s, i + 1, "")
        colon == SkipWs(s, key.end)
        value == ScanOnce(s, SkipWs(s, colon + 1))
        after == SkipWs(s, value.end)
        dd == SetItem(d, key.val[2], value.val)
    IN  IF ~key.ok \/ CharAt(s, colon) # ":" THEN Fail(i)
        ELSE IF ~value.ok THEN Fail(i)
        ELSE IF CharAt(s, after) = "}" THEN Scanned(dd, after + 1)
        ELSE IF CharAt(s, after) = "," THEN ScanObject(s, SkipWs(s, after + 1), dd)
        ELSE Fail(after)

\* JSONArray: i is at an element's first character.
ScanArray(s, i, items) ==
    LET value == ScanOnce(s, i)
        after == SkipWs(s, value.end)
        more == Append(items, value.val)
    IN  IF ~value.ok THEN Fail(i)
        ELSE IF CharAt(s, after) = "]" THEN Scanned(PyList(more), after + 1)
        ELSE IF CharAt(s, after) = "," THEN ScanArray(s, SkipWs(s, after + 1), more)
        ELSE Fail(after)

\* scan_once: the value that starts at i.
ScanOnce(s, i) ==
    LET c == CharAt(s, i)
    IN  CASE c = "\"" -> ScanString(s, i + 1, "")
          [] c = "{" ->
               IF CharAt(s, SkipWs(s, i + 1)) = "}"
               THEN Scanned(PyDict(<<>>), SkipWs(s, i + 1) + 1)
               ELSE ScanObject(s, SkipWs(s, i + 1), PyDict(<<>>))
          [] c = "[" ->
               IF CharAt(s, SkipWs(s, i + 1)) = "]"
               THEN Scanned(PyList(<<>>), SkipWs(s, i + 1) + 1)
               ELSE ScanArray(s, SkipWs(s, i + 1), <<>>)
          [] StartsAt(s, i, "null") -> Scanned(None, i + 4)
          [] StartsAt(s, i, "true") -> Scanned(PyBool(TRUE), i + 4)
          [] StartsAt(s, i, "false") -> Scanned(PyBool(FALSE), i + 5)
          [] StartsAt(s, i, "NaN") -> Scanned(PyFloat("nan"), i + 3)
          [] OTHER -> ScanNumber(s, i)

\* JSONDecoder.decode: leading whitespace, one value, trailing whitespace and
\* nothing else; ok = FALSE is json.JSONDecodeError.
json_loads(s) ==
    LET r == ScanOnce(s, SkipWs(s, 1))
    IN  IF r.ok /\ SkipWs(s, r.end) = Len(s) + 1 THEN r ELSE Fail(r.end)

(***************************************************************************)
(* json.dumps(obj, indent=2), as the JSON download uses it: items one per  *)
(* line, ", " never used, ": " between key and value, ensure_ascii.        *)
(***************************************************************************)
RECURSIVE Spaces(_)
Spaces(n) == IF n <= 0 THEN "" ELSE " " \o Spaces(n - 1)

EscapeChar(c) ==
    CASE c = "\"" -> "\\\"" [] c = "\\" -> "\\\\" [] c = "\n" -> "\\n"
      [] c = "\t" -> "\\t" [] c = "\r" -> "\\r" [] OTHER -> c

\* py_encode_basestring_ascii, without the quotes
RECURSIVE EscapeString(_)
EscapeString(s) ==
    IF s = "" THEN ""
    ELSE EscapeChar(SubSeq(s, 1, 1)) \o EscapeString(SubSeq(s, 2, Len(s)))

FloatRepr(repr) == IF repr = "nan" THEN "NaN" ELSE repr

IndentWidth == 2

RECURSIVE Encode(_, _)
RECURSIVE EncodeItems(_, _, _, _)

\* The items of a list (isDict = FALSE) or the pairs of a dict from index i on,
\* each on a line of its own at the given level.
EncodeItems(items, i, level, isDict) ==
    IF i > Len(items) THEN ""
    ELSE (IF i > 1 THEN "," ELSE "") \o "\n" \o Spaces(IndentWidth * level)
         \o (IF isDict
             THEN "\"" \o EscapeString(items[i][1]) \o "\": "
                  \o Encode(items[i][2], level)
             ELSE Encode(items[i], level))
         \o EncodeItems(items, i + 1, level, isDict)

\* _iterencode: the text of v, whose own lines are indented to level.
Encode(v, level) ==
    CASE TypeOf(v) = "NoneType" -> "null"
      [] TypeOf(v) = "bool" -> IF v[2] THEN "true" ELSE "false"
      [] TypeOf(v) = "int" -> ToString(v[2])
      [] TypeOf(v) = "float" -> FloatRepr(v[2])
      [] TypeOf(v) = "str" -> "\"" \o EscapeString(v[2]) \o "\""
      [] TypeOf(v) = "list" ->
           IF Len(v[2]) = 0 THEN "[]"
           ELSE "[" \o EncodeItems(v[2], 1, level + 1, FALSE)
                \o "\n" \o Spaces(IndentWidth * level) \o "]"
      [] TypeOf(v) = "dict" ->
           IF Len(v[2]) = 0 THEN "{}"
           ELSE "{" \o EncodeItems(v[2], 1, level + 1, TRUE)
                \o "\n" \o Spaces(IndentWidth * level) \o "}"

json_dumps(obj) == Encode(obj, 0)

(***************************************************************************)
(* Python's ==, on the values above: dicts compare as mappings (the order  *)
(* of the keys does not count), lists item by item, nan equals nothing,    *)
(* and an int equals the float with the same value.                        *)
(***************************************************************************)
RECURSIVE PyEq(_, _)
PyEq(a, b) ==
    CASE TypeOf(a) = "dict" /\ TypeOf(b) = "dict" ->
           /\ Len(a[2]) = Len(b[2])
           /\ \A i \in 1..Len(a[2]) :
                 /\ HasKey(b, a[2][i][1])
                 /\ PyEq(a[2][i][2], Item(b, a[2][i][1]))
      [] TypeOf(a) = "list" /\ TypeOf(b) = "list" ->
           /\ Len(a[2]) = Len(b[2])
           /\ \A i \in 1..Len(a[2]) : PyEq(a[2][i], b[2][i])
      [] TypeOf(a) = "float" /\ TypeOf(b) = "float" ->
           a[2] # "nan" /\ a[2] = b[2]
      [] TypeOf(a) = "int" /\ TypeOf(b) = "float" -> ToString(a[2]) \o ".0" = b[2]
      [] TypeOf(a) = "float" /\ TypeOf(b) = "int" -> a[2] = ToString(b[2]) \o ".0"
      [] OTHER -> a = b

(***************************************************************************)
(* str methods evaluate_use_case applies to the response text              *)
(***************************************************************************)
PyWhitespace == {" ", "\t", "\n", "\r"}

RECURSIVE lstrip(_)
lstrip(s) ==
    IF s # "" /\ SubSeq(s, 1, 1) \in PyWhitespace
    THEN lstrip(SubSeq(s, 2, Len(s))) ELSE s

RECURSIVE rstrip(_)
rstrip(s) ==
    IF s # "" /\ SubSeq(s, Len(s), Len(s)) \in PyWhitespace
    THEN rstrip(SubSeq(s, 1, Len(s) - 1)) ELSE s

\* s.strip()
strip(s) == rstrip(lstrip(s))

\* s.startswith(p)
startswith(s, p) == StartsAt(s, 1, p)

\* The least index >= i at which sep occurs in s, or 0.
Find(s, sep, i) ==
    LET at == {j \in i..(Len(s) - Len(sep) + 1) : StartsAt(s, j, sep)}
    IN  IF at = {} THEN 0 ELSE CHOOSE j \in at : \A k \in at : j <= k

\* s.split(sep): the pieces between the occurrences of sep, left to right,
\* the occurrences not overlapping.
RECURSIVE split(_, _)
split(s, sep) ==
    LET at == Find(s, sep, 1)
    IN  IF at = 0 THEN <<s>>
        ELSE <<SubSeq(s, 1, at - 1)>>
             \o split(SubSeq(s, at + Len(sep), Len(s)), sep)

(***************************************************************************)
(* evaluate_use_case                                                       *)
(***************************************************************************)
\* The fence marker the source tests for and splits at (three grave accents).
FENCE == "~~~"

\* result_text without the second trim of line 218: what is between the fences
\* keeps its line breaks.
result_text_untrimmed(content) ==
    LET trimmed == strip(content)
        inner == split(trimmed, FENCE)[2]
    IN  IF startswith(trimmed, FENCE)
        THEN IF startswith(inner, "json")
             THEN SubSeq(inner, 5, Len(inner)) ELSE inner
        ELSE trimmed

\* Lines 211-218: the message content, trimmed, a leading fence and a leading
\* "json" removed, trimmed again.
result_text(content) ==
    LET trimmed == strip(content)
        inner == split(trimmed, FENCE)[2]
    IN  IF startswith(trimmed, FENCE)
        THEN strip(IF startswith(inner, "json")
                   THEN SubSeq(inner, 5, Len(inner)) ELSE inner)
        ELSE strip(trimmed)

\* What client.chat.completions.create does for one request: it raises, or it
\* returns a message whose content is a text.
APIError(message) == <<"APIError", message>>

Completion(content) == <<"Completion", content>>

ParseFailedMessage == "Failed to parse AI response. Please try again."

ServiceFailedMessage(message) == "Error calling Groq API: " \o message

\* One request to the completion service: the credential and the use case the
\* prompt is formatted from.
Request(use_case_data, api_key) == <<api_key, use_case_data>>

\* evaluate_use_case with a decode failure swallowed: the cleaned text itself is
\* returned, and no error is shown.
evaluate_use_case_lenient(use_case_data, api_key, outcome) ==
    LET decoded == json_loads(result_text(outcome[2]))
        sent == <<Request(use_case_data, api_key)>>
    IN  IF outcome[1] = "APIError"
        THEN [result |-> None, error |-> ServiceFailedMessage(outcome[2]),
              requests |-> sent]
        ELSE IF ~decoded.ok
        THEN [result |-> PyStr(result_text(outcome[2])), error |-> "",
              requests |-> sent]
        ELSE [result |-> decoded.val, error |-> "", requests |-> sent]

\* evaluate_use_case asking the service a second time after a decode failure.
evaluate_use_case_retrying(use_case_data, api_key, outcome) ==
    LET decoded == json_loads(result_text(outcome[2]))
        sent == <<Request(use_case_data, api_key)>>
    IN  IF outcome[1] = "APIError"
        THEN [result |-> None, error |-> ServiceFailedMessage(outcome[2]),
              requests |-> sent]
        ELSE IF ~decoded.ok
        THEN [result |-> None, error |-> ParseFailedMessage,
              requests |-> sent \o sent]
        ELSE [result |-> decoded.val, error |-> "", requests |-> sent]

\* evaluate_use_case(use_case_data, api_key), the service answering the one
\* request with outcome: the value returned, the st.error message shown ("" for
\* none) and the requests sent.
evaluate_use_case(use_case_data, api_key, outcome) ==
    LET decoded == json_loads(result_text(outcome[2]))
        sent == <<Request(use_case_data, api_key)>>
    IN  IF outcome[1] = "APIError"
        THEN [result |-> None, error |-> ServiceFailedMessage(outcome[2]),
              requests |-> sent]
        ELSE IF ~decoded.ok
        THEN [result |-> None, error |-> ParseFailedMessage, requests |-> sent]
        ELSE [result |-> decoded.val, error |-> "", requests |-> sent]

(***************************************************************************)
(* Formatting helpers of the two renderings                                *)
(***************************************************************************)
\* The upper-case letter of each lower-case letter, and the reverse.
UpperOf ==
    [a |-> "A", b |-> "B", c |-> "C", d |-> "D", e |-> "E", f |-> "F", g
    |-> "G", h |-> "H", i |-> "I", j |-> "J", k |-> "K", l |-> "L", m |->
    "M", n |-> "N", o |-> "O", p |-> "P", q |-> "Q", r |-> "R", s |-> "S",
    t |-> "T", u |-> "U", v |-> "V", w |-> "W", x |-> "X", y |-> "Y", z
    |-> "Z"]

LowerOf ==
    [A |-> "a", B |-> "b", C |-> "c", D |-> "d", E |-> "e", F |-> "f", G
    |-> "g", H |-> "h", I |-> "i", J |-> "j", K |-> "k", L |-> "l", M |->
    "m", N |-> "n", O |-> "o", P |-> "p", Q |-> "q", R |-> "r", S |-> "s",
    T |-> "t", U |-> "u", V |-> "v", W |-> "w", X |-> "x", Y |-> "y", Z
    |-> "z"]

IsLetter(c) == c \in DOMAIN UpperOf \/ c \in DOMAIN LowerOf

ToUpper(c) == IF c \in DOMAIN UpperOf THEN UpperOf[c] ELSE c

ToLower(c) == IF c \in DOMAIN LowerOf THEN LowerOf[c] ELSE c

\* s.upper()
RECURSIVE upper(_)
upper(s) ==
    IF s = "" THEN "" ELSE ToUpper(SubSeq(s, 1, 1)) \o upper(SubSeq(s, 2, Len(s)))

\* s.replace(old, new) for a one-character old
RECURSIVE replace(_, _, _)
replace(s, old, new) ==
    IF s = "" THEN ""
    ELSE (IF SubSeq(s, 1, 1) = old THEN new ELSE SubSeq(s, 1, 1))
         \o replace(SubSeq(s, 2, Len(s)), old, new)

\* s.title(): a letter that follows a non-letter is upper-cased, every other
\* letter lower-cased.  prev is the character before s.
RECURSIVE TitleFrom(_, _)
TitleFrom(s, prev) ==
    IF s = "" THEN ""
    ELSE LET c == SubSeq(s, 1, 1)
         IN  (IF IsLetter(prev) THEN ToLower(c) ELSE ToUpper(c))
             \o TitleFrom(SubSeq(s, 2, Len(s)), c)

title(s) == TitleFrom(s, "")

\* sep.join(items), items a list of str
RECURSIVE join(_, _)
join(sep, items) ==
    IF Len(items) = 0 THEN ""
    ELSE IF Len(items) = 1 THEN items[1][2]
    ELSE items[1][2] \o sep \o join(sep, Tail(items))

\* repr(v) and str(v), as an f-string formats a value (a str's repr is
\* written with single quotes, its characters unescaped).
RECURSIVE repr(_)
RECURSIVE ReprItems(_, _, _)
ReprItems(items, i, isDict) ==
    IF i > Len(items) THEN ""
    ELSE (IF i > 1 THEN ", " ELSE "")
         \o (IF isDict
             THEN "'" \o items[i][1] \o "': " \o repr(items[i][2])
             ELSE repr(items[i]))
         \o ReprItems(items, i + 1, isDict)

repr(v) ==
    CASE TypeOf(v) = "NoneType" -> "None"
      [] TypeOf(v) = "bool" -> IF v[2] THEN "True" ELSE "False"
      [] TypeOf(v) = "int" -> ToString(v[2])
      [] TypeOf(v) = "float" -> v[2]
      [] TypeOf(v) = "str" -> "'" \o v[2] \o "'"
      [] TypeOf(v) = "list" -> "[" \o ReprItems(v[2], 1, FALSE) \o "]"
      [] TypeOf(v) = "dict" -> "{" \o ReprItems(v[2], 1, TRUE) \o "}"

str(v) == IF TypeOf(v) = "str" THEN v[2] ELSE repr(v)

\* hash(v) succeeds: a list or a dict cannot be looked up in a dict.
Hashable(v) == TypeOf(v) \notin {"list", "dict"}

(***************************************************************************)
(* generate_pdf_report: the story handed to the document, as data.  The    *)
(* title block, the footer and the styles are fixed text and are left out; *)
(* what reportlab does with a cell is outside the source.                  *)
(***************************************************************************)
NeutralColor == "#64748B"

\* {'HIGH': ..., 'MEDIUM': ..., 'LOW': ...}.get(level, '#64748B')
LevelColor(level) ==
    CASE level = PyStr("HIGH") -> "#DC2626"
      [] level = PyStr("MEDIUM") -> "#D97706"
      [] level = PyStr("LOW") -> "#059669"
      [] OTHER -> NeutralColor

ActionRowLimit == 6

ActionTextLimit == 60

RegulationTextLimit == 30

Min(a, b) == IF a < b THEN a ELSE b

\* v[:n] for a str or a list
Slice(v, n) == <<v[1], SubSeq(v[2], 1, Min(n, Len(v[2])))>>

Sliceable(v) == TypeOf(v) \in {"str", "list"}

\* The first exception name in a sequence of names, "" standing for none.
RECURSIVE FirstError(_)
FirstError(errors) ==
    IF Len(errors) = 0 THEN ""
    ELSE IF errors[1] # "" THEN errors[1]
    ELSE FirstError(Tail(errors))

\* Lines 298-303 for one entry of risks
PdfSectionError(risk_data) ==
    IF TypeOf(risk_data) # "dict" THEN "AttributeError"
    ELSE IF ~Hashable(Get(risk_data, "level", PyStr("UNKNOWN"))) THEN "TypeError"
    ELSE ""

PdfSection(risk_name, risk_data) ==
    LET level == Get(risk_data, "level", PyStr("UNKNOWN"))
    IN  [heading |-> title(replace(risk_name, "_", " ")) \o " Risk:",
         level |-> str(level),
         color |-> LevelColor(level),
         summary |-> Get(risk_data, "summary", PyStr(""))]

\* Lines 313-318 for one action
PdfRowError(action) ==
    IF TypeOf(action) # "dict" THEN "AttributeError"
    ELSE IF ~Sliceable(Get(action, "action", PyStr(""))) THEN "TypeError"
    ELSE IF ~Sliceable(Get(action, "regulation", PyStr(""))) THEN "TypeError"
    ELSE ""

PdfRow(action) ==
    << PyStr("P" \o str(Get(action, "priority", PyStr("-")))),
       Slice(Get(action, "action", PyStr("")), ActionTextLimit),
       Slice(Get(action, "regulation", PyStr("")), RegulationTextLimit),
       Get(action, "owner", PyStr("")) >>

\* actions[:6] without the limit
AllActions(actions) == actions[2]

\* actions[:6]
FirstActions(actions) == SubSeq(actions[2], 1, Min(ActionRowLimit, Len(actions[2])))

\* Lines 308-318: the table's rows, the header first; no table for no actions.
PdfActionTable(actions) ==
    IF ~Truthy(actions) THEN <<>>
    ELSE << <<PyStr("Priority"), PyStr("Action"), PyStr("Regulation"), PyStr("Owner")>> >>
         \o [i \in 1..Len(FirstActions(actions)) |-> PdfRow(FirstActions(actions)[i])]

PdfActionsError(actions) ==
    IF ~Truthy(actions) THEN ""
    ELSE IF TypeOf(actions) = "list"
    THEN FirstError([i \in 1..Len(FirstActions(actions)) |->
                        PdfRowError(FirstActions(actions)[i])])
    ELSE IF TypeOf(actions) = "str" THEN "AttributeError"
    ELSE "TypeError"

\* The exception generate_pdf_report raises on the way, "" for none, in the
\* order of the statements.
PdfError(evaluation_result) ==
    LET risks == Get(evaluation_result, "risks", PyDict(<<>>))
    IN  IF TypeOf(evaluation_result) # "dict" THEN "TypeError"
        ELSE IF ~HasKey(evaluation_result, "risk_level") THEN "KeyError"
        ELSE IF ~Hashable(Item(evaluation_result, "risk_level")) THEN "TypeError"
        ELSE IF ~HasKey(evaluation_result, "overall_score") THEN "KeyError"
        ELSE IF TypeOf(risks) # "dict" THEN "AttributeError"
        ELSE FirstError(
                 [i \in 1..Len(risks[2]) |-> PdfSectionError(risks[2][i][2])]
                 \o <<PdfActionsError(Get(evaluation_result,
                                          "recommended_actions", PyList(<<>>)))>>)

NoPdf ==
    [exception |-> "", produced |-> FALSE, overview |-> <<>>, description |-> "",
     assessment |-> <<>>, risk_color |-> "", executive_summary |-> None,
     sections |-> <<>>, action_table |-> <<>>]

generate_pdf_report(use_case_data, evaluation_result) ==
    LET risks == Get(evaluation_result, "risks", PyDict(<<>>))
    IN  IF PdfError(evaluation_result) # ""
        THEN [NoPdf EXCEPT !.exception = PdfError(evaluation_result)]
        ELSE
        [exception |-> "",
         produced |-> TRUE,
         overview |->
             << <<"Use Case Name:", Item(use_case_data, "name")[2]>>,
                <<"Department:", Item(use_case_data, "department")[2]>>,
                <<"AI Techniques:", Item(use_case_data, "ai_techniques")[2]>>,
                <<"Deployment Stage:", Item(use_case_data, "stage")[2]>>,
                <<"Target Markets:", join(", ", Item(use_case_data, "markets")[2])>>,
                <<"Data Types:", join(", ", Item(use_case_data, "data_types")[2])>> >>,
         description |-> Item(use_case_data, "description")[2],
         assessment |->
             << <<PyStr("Overall Score:"),
                  PyStr(str(Item(evaluation_result, "overall_score")) \o "/100")>>,
                <<PyStr("Risk Level:"), Item(evaluation_result, "risk_level")>> >>,
         risk_color |-> LevelColor(Item(evaluation_result, "risk_level")),
         executive_summary |-> Get(evaluation_result, "executive_summary", PyStr("")),
         sections |-> [i \in 1..Len(risks[2]) |->
                          PdfSection(risks[2][i][1], risks[2][i][2])],
         action_table |-> PdfActionTable(Get(evaluation_result,
                                             "recommended_actions", PyList(<<>>)))]

(***************************************************************************)
(* The Results tab of main(): lines 517-619                                *)
(***************************************************************************)
\* get_risk_badge(level), for a str level: the badge's class and label.
get_risk_badge(level) ==
    IF upper(level) = "HIGH" THEN [class |-> "risk-high", label |-> "HIGH"]
    ELSE IF upper(level) = "MEDIUM" THEN [class |-> "risk-medium", label |-> "MEDIUM"]
    ELSE [class |-> "risk-low", label |-> "LOW"]

\* Lines 553-561 for one entry of risks
CardError(risk_data) ==
    IF TypeOf(risk_data) # "dict" THEN "AttributeError"
    ELSE IF TypeOf(Get(risk_data, "level", PyStr("UNKNOWN"))) # "str"
    THEN "AttributeError"
    ELSE ""

Card(risk_name, risk_data) ==
    [heading |-> title(replace(risk_name, "_", " ")) \o " Risk",
     badge |-> get_risk_badge(Get(risk_data, "level", PyStr("UNKNOWN"))[2]),
     summary |-> str(Get(risk_data, "summary", PyStr("No details available.")))]

\* {1: red, 2: orange, 3: yellow}.get(priority, white)
PriorityColor(priority) ==
    CASE PyEq(priority, PyInt(1)) \/ priority = PyBool(TRUE) -> "red"
      [] PyEq(priority, PyInt(2)) -> "orange"
      [] PyEq(priority, PyInt(3)) -> "yellow"
      [] OTHER -> "white"

\* Lines 571-578 for one action
ActionLineError(action) ==
    IF TypeOf(action) # "dict" THEN "AttributeError"
    ELSE IF ~Hashable(Get(action, "priority", PyStr("-"))) THEN "TypeError"
    ELSE ""

ActionLine(action) ==
    [priority_color |-> PriorityColor(Get(action, "priority", PyStr("-"))),
     priority |-> "P" \o str(Get(action, "priority", PyStr("-"))),
     action |-> str(Get(action, "action", PyStr("N/A"))),
     regulation |-> str(Get(action, "regulation", PyStr(""))),
     owner |-> str(Get(action, "owner", PyStr("TBD")))]

\* Lines 568-578: iterating actions, when it is truthy
ActionLinesError(actions) ==
    IF ~Truthy(actions) THEN ""
    ELSE IF TypeOf(actions) = "list"
    THEN FirstError([i \in 1..Len(actions[2]) |-> ActionLineError(actions[2][i])])
    ELSE IF TypeOf(actions) \in {"str", "dict"} THEN "AttributeError"
    ELSE "TypeError"

\* The export with the use case written under both keys.
ExportBundleCopied(use_case, result, now) ==
    PyDict(<< <<"use_case", use_case>>, <<"evaluation", use_case>>,
              <<"generated_at", PyStr(now)>> >>)

\* Lines 599-603: the JSON download's text
ExportBundle(use_case, result, now) ==
    PyDict(<< <<"use_case", use_case>>, <<"evaluation", result>>,
              <<"generated_at", PyStr(now)>> >>)

json_str(use_case, result, now) == json_dumps(ExportBundle(use_case, result, now))

\* The exception that ends the script in the Results tab, "" for none, in the
\* order of the statements.
Tab2Error(result, use_case) ==
    LET risks == Get(result, "risks", PyDict(<<>>))
    IN  IF TypeOf(result) # "dict" THEN "AttributeError"
        ELSE IF TypeOf(risks) # "dict" THEN "AttributeError"
        ELSE FirstError(
                 [i \in 1..Len(risks[2]) |-> CardError(risks[2][i][2])]
                 \o <<ActionLinesError(Get(result, "recommended_actions", PyList(<<>>))),
                      PdfError(result)>>)

InfoView ==
    [view |-> "info", exception |-> "", score_card |-> <<>>, cards |-> <<>>,
     action_lines |-> <<>>, pdf_buffer |-> NoPdf, json_str |-> "",
     new_evaluation_btn |-> FALSE]

\* What the Results tab shows for the session state, at time now.
Tab2(result, use_case, now) ==
    LET risks == Get(result, "risks", PyDict(<<>>))
        actions == Get(result, "recommended_actions", PyList(<<>>))
    IN  IF ~(Truthy(result) /\ Truthy(use_case)) THEN InfoView
        ELSE IF Tab2Error(result, use_case) # ""
        THEN [InfoView EXCEPT !.view = "exception",
                              !.exception = Tab2Error(result, use_case)]
        ELSE
        [view |-> "results",
         exception |-> "",
         score_card |-> <<str(Get(result, "overall_score", PyStr("N/A"))),
                          str(Get(result, "risk_level", PyStr("N/A")))>>,
         cards |-> [i \in 1..Len(risks[2]) |-> Card(risks[2][i][1], risks[2][i][2])],
         action_lines |->
             IF Truthy(actions)
             THEN [i \in 1..Len(actions[2]) |-> ActionLine(actions[2][i])]
             ELSE <<>>,
         pdf_buffer |-> generate_pdf_report(use_case, result),
         json_str |-> json_str(use_case, result, now),
         new_evaluation_btn |-> TRUE]

(***************************************************************************)
(* The form of the Evaluate tab: the widgets' values in a run of main()    *)
(***************************************************************************)
Unselected == "Select..."

\* The widgets' values before the user touches them.
EmptyForm ==
    [name |-> "", department |-> Unselected, ai_techniques |-> Unselected,
     stage |-> Unselected, markets |-> <<>>, data_types |-> <<>>,
     description |-> "", api_key |-> ""]

ResumeScreener ==
    [name |-> "Resume Screener", department |-> "Human Resources",
     ai_techniques |-> "Natural Language Processing (NLP)",
     stage |-> Unselected, markets |-> <<"United States">>,
     data_types |-> <<"Employee / HR Data">>,
     description |-> "Screens resumes using NLP.", api_key |-> "gsk_a"]

\* A second complete form, whose texts hold a quote, a backslash and a line
\* break, and that selects two markets.
ChurnModel ==
    [name |-> "Churn \"v2\"", department |-> "Marketing",
     ai_techniques |-> Unselected, stage |-> "Pilot / Testing",
     markets |-> <<"European Union", "Canada">>,
     data_types |-> <<"Financial Data", "Customer Behavior Data">>,
     description |-> "Predicts churn.\nReads C:\\crm.", api_key |-> "gsk_b"]

CompleteForms == {ResumeScreener, ChurnModel}

\* Each complete form with one of the checked fields left as it starts.
IncompleteForms ==
    UNION {{[f EXCEPT !.name = ""], [f EXCEPT !.department = Unselected],
            [f EXCEPT !.markets = <<>>], [f EXCEPT !.data_types = <<>>],
            [f EXCEPT !.description = ""], [f EXCEPT !.api_key = ""]}
           : f \in {ResumeScreener}} \cup {EmptyForm}

Forms == CompleteForms \cup IncompleteForms

\* The checks of lines 485-494, the credential's check left out.
ValidateWithoutKey(form) ==
    IF form.name = "" THEN "Please enter a use case name"
    ELSE IF form.department = Unselected THEN "Please select a department"
    ELSE IF form.markets = <<>> THEN "Please select at least one target market"
    ELSE IF form.data_types = <<>> THEN "Please select at least one data type"
    ELSE IF form.description = "" THEN "Please enter a description"
    ELSE ""

\* Lines 485-496: the st.error message of the first failing check, "" if the
\* form passes.
Validate(form) ==
    IF form.name = "" THEN "Please enter a use case name"
    ELSE IF form.department = Unselected THEN "Please select a department"
    ELSE IF form.markets = <<>> THEN "Please select at least one target market"
    ELSE IF form.data_types = <<>> THEN "Please select at least one data type"
    ELSE IF form.description = "" THEN "Please enter a description"
    ELSE IF form.api_key = "" THEN "Please enter your Groq API key in the sidebar"
    ELSE ""

StrList(items) == PyList([i \in 1..Len(items) |-> PyStr(items[i])])

\* Lines 498-506
BuildUseCase(form) ==
    PyDict(<< <<"name", PyStr(form.name)>>,
              <<"department", PyStr(form.department)>>,
              <<"ai_techniques", PyStr(IF form.ai_techniques # Unselected
                                       THEN form.ai_techniques ELSE "Not specified")>>,
              <<"stage", PyStr(IF form.stage # Unselected
                               THEN form.stage ELSE "Not specified")>>,
              <<"markets", StrList(form.markets)>>,
              <<"data_types", StrList(form.data_types)>>,
              <<"description", PyStr(form.description)>> >>)

(***************************************************************************)
(* What the completion service may answer                                  *)
(***************************************************************************)
ScenarioA == "{\"overall_score\": 78, \"risk_level\": \"HIGH\"}"

\* One entry of "risks", as the prompt's skeleton lays it out.
RiskText(name, level, score, summary) ==
    "\"" \o name \o "\": {\"level\": \"" \o level \o "\", \"score\": " \o score
    \o ", \"summary\": \"" \o summary \o "\"}"

ActionsText ==
    "\"recommended_actions\": [{\"priority\": 2, \"action\": \"Run a bias audit\", "
    \o "\"regulation\": \"NYC Local Law 144\", \"owner\": \"HR\"}]"

\* A response with the given head fields and the given entries of "risks".
RisksText(score, level, riskTexts) ==
    "{\"overall_score\": " \o score \o ", \"risk_level\": \"" \o level
    \o "\",\n \"risks\": {" \o riskTexts \o "}"

ResultText(score, level, riskTexts) ==
    RisksText(score, level, riskTexts) \o ",\n " \o ActionsText
    \o ",\n \"executive_summary\": \"A \\\"high\\\" risk.\"}"

Regulatory == RiskText("regulatory", "HIGH", "85", "EU AI Act.")

Bias == RiskText("bias", "MEDIUM", "60", "Proxy bias.")

Privacy == RiskText("privacy", "LOW", "20", "Consent held.")

Transparency == RiskText("transparency", "MEDIUM", "55", "Notice needed.")

\* All four categories, every field in its range.
FullResult ==
    ResultText("72", "HIGH",
               Regulatory \o ", " \o Bias \o ", " \o Privacy \o ", " \o Transparency)

\* Scenario D: the transparency category is left out.
NoTransparency ==
    RisksText("72", "HIGH", Regulatory \o ", " \o Bias \o ", " \o Privacy) \o "}"

\* A category present without its level.
NoLevelInCategory ==
    ResultText("30", "LOW", "\"privacy\": {\"score\": 20, \"summary\": \"Ok.\"}")

\* Decodable texts whose present fields break the schema of the spec.
BadLevel == "{\"overall_score\": 78, \"risk_level\": \"CRITICAL\"}"

BadScore == "{\"overall_score\": 150, \"risk_level\": \"HIGH\"}"

FractionScore == "{\"overall_score\": 78.5, \"risk_level\": \"HIGH\"}"

TextScore == "{\"overall_score\": \"78\", \"risk_level\": \"HIGH\"}"

BadCategoryLevel ==
    ResultText("72", "HIGH", RiskText("bias", "SEVERE", "60", "Proxy bias."))

BadCategoryScore ==
    ResultText("72", "HIGH", RiskText("bias", "HIGH", "-1", "Proxy bias."))

SchemaViolations ==
    {BadLevel, BadScore, FractionScore, TextScore, BadCategoryLevel, BadCategoryScore}

\* Decodable texts without a head field, or that are no object.
MissingScore == "{\"risk_level\": \"HIGH\"}"

MissingLevel == "{\"overall_score\": 78}"

NotAnObject == {"[1]", "78", "\"HIGH\"", "true"}

\* Decodable texts whose value is falsy.
FalsyTexts == {"{}", "[]", "0", "false", "null", "\"\"", "0.0"}

\* Texts json.loads rejects.
ScenarioC == "not json at all"

MalformedTexts ==
    {ScenarioC, "", "{\"overall_score\": 78,", "{'overall_score': 78}",
     "{\"overall_score\": 78,}", ScenarioA \o " Done.", "Result: " \o ScenarioA}

\* A valid payload whose summary quotes a fenced snippet.
FenceInside ==
    "{\"overall_score\": 12, \"risk_level\": \"LOW\", "
    \o "\"executive_summary\": \"Run ~~~pip list~~~ first.\"}"

\* Scenario B: the payload in a fenced code block with the language tag.
Fenced(tag, payload) == FENCE \o tag \o "\n" \o payload \o "\n" \o FENCE

\* Texts on which a second stripping would have something to take, were the
\* first to leave it: a block in a block, a doubled fence, a doubled tag, and
\* grave accents that are no fence.
NestedFences ==
    {Fenced("json", Fenced("json", ScenarioA)),
     Fenced("", " " \o Fenced("json", ScenarioA)),
     FENCE \o FENCE \o "json\n" \o ScenarioA \o "\n" \o FENCE,
     FENCE \o "~json\n" \o ScenarioA \o "\n" \o FENCE,
     FENCE \o "jsonjson\n" \o ScenarioA \o "\n" \o FENCE,
     FENCE \o "json json \n" \o ScenarioA \o "\n" \o FENCE,
     FENCE \o " json\n" \o ScenarioA \o "\n" \o FENCE,
     FENCE \o "json\n ~~ " \o FENCE \o "json" \o FENCE,
     "json\n" \o ScenarioA,
     ScenarioA \o "\n" \o Fenced("json", ScenarioA)}

LanguageTags == {"", "json", "JSON", "javascript"}

ValidPayloads == {ScenarioA, FullResult, NoTransparency, NoLevelInCategory, FenceInside}

(***************************************************************************)
(* Generated action lists, for the report's table                          *)
(***************************************************************************)
MaxActions == 7

Overshoot == 1

\* n characters, the digits in turn, so that every cut shows.
RECURSIVE Filler(_)
Filler(n) ==
    IF n <= 0 THEN "" ELSE Filler(n - 1) \o ToString(n % 10)

\* Action i of n: the priorities fall as the list goes on.
GeneratedAction(i, n, actionLen, regulationLen) ==
    PyDict(<< <<"priority", PyInt(n + 1 - i)>>,
              <<"action", PyStr(Filler(actionLen))>>,
              <<"regulation", PyStr(Filler(regulationLen))>>,
              <<"owner", PyStr("Owner " \o ToString(i))>> >>)

GeneratedResult(n, actionLen, regulationLen) ==
    PyDict(<< <<"overall_score", PyInt(40)>>,
              <<"risk_level", PyStr("MEDIUM")>>,
              <<"recommended_actions",
                PyList([i \in 1..n |->
                           GeneratedAction(i, n, actionLen, regulationLen)])>> >>)

\* The lengths of the action and the regulation texts: around each limit.
TextLens ==
    {<<0, 0>>,
     <<ActionTextLimit - 1, RegulationTextLimit + Overshoot>>,
     <<ActionTextLimit, RegulationTextLimit>>,
     <<ActionTextLimit + Overshoot, RegulationTextLimit - 1>>,
     <<ActionTextLimit + Overshoot, RegulationTextLimit + Overshoot>>}

GeneratedTexts ==
    {json_dumps(GeneratedResult(n, lens[1], lens[2])) :
        n \in 0..MaxActions, lens \in TextLens}

(***************************************************************************)
(* The outcomes each specification draws the service's answer from         *)
(***************************************************************************)
Completions(texts) == {Completion(t) : t \in texts}

\* Spec: a few answers of every kind.
SessionOutcomes ==
    {APIError("401 Invalid API Key")}
    \cup Completions({ScenarioA, NoTransparency, BadLevel, MissingLevel, "[1]",
                      "{}", "null", ScenarioC, "{\"overall_score\": 78,",
                      Fenced("json", ScenarioA), Fenced("json", FenceInside)})

\* ParseSpec: every payload, bare, padded and fenced.
ParseTexts ==
    LET payloads == ValidPayloads \cup SchemaViolations \cup NotAnObject
                    \cup FalsyTexts \cup MalformedTexts
                    \cup {MissingScore, MissingLevel}
    IN  payloads
        \cup {" \n" \o p \o "\n" : p \in payloads}
        \cup {Fenced(tag, p) : tag \in LanguageTags, p \in payloads}
        \cup {Fenced("json", p) \o "\nHope this helps." : p \in payloads}
        \cup {FENCE \o "json" \o p : p \in payloads}
        \cup {FENCE, FENCE \o FENCE, "~" \o FENCE \o "json" \o FENCE, "~~"}
        \cup NestedFences

ParseOutcomes == Completions(ParseTexts)

\* ReportSpec: valid results with generated action lists and the valid payloads.
ReportOutcomes == Completions(GeneratedTexts \cup ValidPayloads)

Clock == {"2026-01-05T09:30:00", "2026-11-01T17:05:09.250000"}

(***************************************************************************)
(* State                                                                   *)
(***************************************************************************)
VARIABLES
    evaluation_result,  \* st.session_state.evaluation_result
    use_case_data,      \* st.session_state.use_case_data
    form,               \* the widgets' values in the last run
    button,             \* the button that started the last run
    response,           \* the service's answer in the last run, or NoResponse
    requests,           \* the requests the last run sent to the service
    st_error,           \* the st.error message of the last run, "" for none
    st_success,         \* whether the last run showed st.success
    tab2                \* what the Results tab showed in the last run

vars == <<evaluation_result, use_case_data, form, button, response, requests,
          st_error, st_success, tab2>>

NoResponse == <<"NoResponse", "">>

\* A fresh session: lines 402-406, nothing clicked yet.
Init ==
    /\ evaluation_result = None
    /\ use_case_data = None
    /\ form = EmptyForm
    /\ button = "none"
    /\ response = NoResponse
    /\ requests = <<>>
    /\ st_error = ""
    /\ st_success = FALSE
    /\ tab2 = InfoView

\* "Evaluate with AI" on a form that fails a check of lines 485-496.
EvaluateRejected ==
    \E f \in Forms, now \in Clock :
        /\ Validate(f) # ""
        /\ form' = f
        /\ button' = "evaluate"
        /\ response' = NoResponse
        /\ requests' = <<>>
        /\ st_error' = Validate(f)
        /\ st_success' = FALSE
        /\ UNCHANGED <<evaluation_result, use_case_data>>
        /\ tab2' = Tab2(evaluation_result, use_case_data, now)

\* Evaluate without the test of line 511: whatever evaluate_use_case returns is
\* stored.
EvaluateStoringAnyResult(outcomes) ==
    \E f \in Forms, outcome \in outcomes, now \in Clock :
        LET ran == evaluate_use_case(BuildUseCase(f), f.api_key, outcome)
        IN  /\ Validate(f) = ""
            /\ form' = f
            /\ button' = "evaluate"
            /\ response' = outcome
            /\ requests' = ran.requests
            /\ st_error' = ran.error
            /\ st_success' = Truthy(ran.result)
            /\ evaluation_result' = ran.result
            /\ use_case_data' = BuildUseCase(f)
            /\ tab2' = Tab2(evaluation_result', use_case_data', now)

\* Evaluate keeping the use case of every accepted run, stored result or not.
EvaluateKeepingUseCase(outcomes) ==
    \E f \in Forms, outcome \in outcomes, now \in Clock :
        LET ran == evaluate_use_case(BuildUseCase(f), f.api_key, outcome)
            stored == Truthy(ran.result)
        IN  /\ Validate(f) = ""
            /\ form' = f
            /\ button' = "evaluate"
            /\ response' = outcome
            /\ requests' = ran.requests
            /\ st_error' = ran.error
            /\ st_success' = stored
            /\ evaluation_result' = IF stored THEN ran.result ELSE evaluation_result
            /\ use_case_data' = BuildUseCase(f)
            /\ tab2' = Tab2(evaluation_result', use_case_data', now)

\* "Evaluate with AI" on a form that passes: lines 497-515, then the Results
\* tab.  The service answers with one of outcomes.
Evaluate(outcomes) ==
    \E f \in Forms, outcome \in outcomes, now \in Clock :
        LET ran == evaluate_use_case(BuildUseCase(f), f.api_key, outcome)
            stored == Truthy(ran.result)
        IN  /\ Validate(f) = ""
            /\ form' = f
            /\ button' = "evaluate"
            /\ response' = outcome
            /\ requests' = ran.requests
            /\ st_error' = ran.error
            /\ st_success' = stored
            /\ evaluation_result' = IF stored THEN ran.result ELSE evaluation_result
            /\ use_case_data' = IF stored THEN BuildUseCase(f) ELSE use_case_data
            /\ tab2' = Tab2(evaluation_result', use_case_data', now)

\* A run of the script that empties the session state and reruns: what the
\* rerun, with no button pressed, leaves.
Emptied(pressed) ==
    /\ evaluation_result' = None
    /\ use_case_data' = None
    /\ button' = pressed
    /\ response' = NoResponse
    /\ requests' = <<>>
    /\ st_error' = ""
    /\ st_success' = FALSE
    /\ tab2' = InfoView
    /\ UNCHANGED form

\* "Clear Form": lines 478-481.
ClearForm == Emptied("clear")

\* "New Evaluation": lines 613-616; the button is there once the Results tab
\* has rendered down to it.
NewEvaluation ==
    /\ tab2.new_evaluation_btn
    /\ Emptied("new_evaluation")

\* Any other interaction: the script runs again with no button pressed.
Rerun ==
    \E now \in Clock :
        /\ button' = "none"
        /\ response' = NoResponse
        /\ requests' = <<>>
        /\ st_error' = ""
        /\ st_success' = FALSE
        /\ tab2' = Tab2(evaluation_result, use_case_data, now)
        /\ UNCHANGED <<evaluation_result, use_case_data, form>>

Next ==
    \/ EvaluateRejected
    \/ Evaluate(SessionOutcomes)
    \/ ClearForm
    \/ NewEvaluation
    \/ Rerun

Spec == Init /\ [][Next]_vars

\* The first evaluation of a fresh or emptied session on every answer of a
\* set: the pure functions of the pipeline applied to bounded inputs.
FirstEvaluation(outcomes) ==
    /\ evaluation_result = None
    /\ button # "evaluate"
    /\ Evaluate(outcomes)

ParseNext ==
    \/ FirstEvaluation(ParseOutcomes)
    \/ ClearForm
    \/ NewEvaluation

ParseSpec == Init /\ [][ParseNext]_vars

ReportNext ==
    \/ FirstEvaluation(ReportOutcomes)
    \/ NewEvaluation
    \/ Rerun

ReportSpec == Init /\ [][ReportNext]_vars

(***************************************************************************)
(* The schema of the specification (its section 3), for the claims         *)
(***************************************************************************)
RiskLevels == {PyStr("HIGH"), PyStr("MEDIUM"), PyStr("LOW")}

FixedCategories == {"regulatory", "bias", "privacy", "transparency"}

ScoreInRange(v) == TypeOf(v) = "int" /\ v[2] >= 0 /\ v[2] <= 100

\* A dict whose present level (under either name) or score is out of the schema.
FieldsViolate(d, levelKey, scoreKey) ==
    \/ HasKey(d, levelKey) /\ Item(d, levelKey) \notin RiskLevels
    \/ HasKey(d, scoreKey) /\ ~ScoreInRange(Item(d, scoreKey))

\* A decoded response with a present level or score out of the schema, in its
\* head or in an entry of risks.
ViolatesSchema(v) ==
    /\ TypeOf(v) = "dict"
    /\ \/ FieldsViolate(v, "risk_level", "overall_score")
       \/ /\ HasKey(v, "risks")
          /\ TypeOf(Item(v, "risks")) = "dict"
          /\ \E i \in 1..Len(Item(v, "risks")[2]) :
                LET entry == Item(v, "risks")[2][i][2]
                IN  TypeOf(entry) = "dict" /\ FieldsViolate(entry, "level", "score")

\* The last run was an evaluation that the service answered with a text.
Answered == button = "evaluate" /\ response[1] = "Completion"

\* What json.loads makes of the answer's text after the fence stripping.
Decoded == json_loads(result_text(response[2]))

\* The last run showed no result of its own: an error, no success.
EndedInError == st_error # "" /\ ~st_success

(***************************************************************************)
(* C1.  A response that decodes as JSON but has a present level or         *)
(* risk_level outside {HIGH, MEDIUM, LOW}, or a present score or           *)
(* overall_score that is no integer in [0,100], ends the evaluation in an  *)
(* error, and nothing of it is stored for rendering or export.             *)
(***************************************************************************)
C1_SchemaViolationIsRejected ==
    (Answered /\ Decoded.ok /\ ViolatesSchema(Decoded.val))
        => (EndedInError /\ evaluation_result # Decoded.val)

C4_AcceptedResultHasHeadFields ==
    evaluation_result # None
        => /\ TypeOf(evaluation_result) = "dict"
           /\ HasKey(evaluation_result, "overall_score")
           /\ HasKey(evaluation_result, "risk_level")
           /\ tab2.view # "exception"

(***************************************************************************)
(* C5.  A decodable payload in a fenced code block, with no language tag   *)
(* or with the tag json, evaluates as the payload alone does: the same     *)
(* error or the same stored result.  (The claim allows any tag; this is    *)
(* the claim on the two tags the source provides for.)                     *)
(***************************************************************************)
C5_FencedPayloadParsesAsBare ==
    \A payload \in ValidPayloads, tag \in {"", "json"} :
        (Answered /\ response[2] = Fenced(tag, payload))
            => /\ Decoded.ok
               /\ Decoded.val = json_loads(payload).val
               /\ st_error = ""
               /\ evaluation_result = json_loads(payload).val

(***************************************************************************)
(* C6.  When the stored result's risks leave out one of the four fixed     *)
(* categories, the Results tab still renders, and the report holds a       *)
(* section for that category, headed "<Category Title> Risk", with the     *)
(* level UNKNOWN in the neutral color.                                     *)
(***************************************************************************)
C6_OmittedCategoryIsRenderedUnknown ==
    (/\ st_success
     /\ TypeOf(evaluation_result) = "dict"
     /\ HasKey(evaluation_result, "risks")
     /\ TypeOf(Item(evaluation_result, "risks")) = "dict")
        => \A category \in FixedCategories :
              ~HasKey(Item(evaluation_result, "risks"), category)
                  => /\ tab2.view = "results"
                     /\ \E i \in 1..Len(tab2.pdf_buffer.sections) :
                           LET section == tab2.pdf_buffer.sections[i]
                           IN  /\ section.heading = title(category) \o " Risk:"
                               /\ section.level = "UNKNOWN"
                               /\ section.color = NeutralColor

(***************************************************************************)
(* C7.  The report's action table has min(n, 6) data rows for a list of n  *)
(* actions (and is left out for none); row i is made of action i of the    *)
(* list, in the list's order whatever the priorities: its Action cell is   *)
(* the first at most 60 characters of the action's text, its Regulation    *)
(* cell the first at most 30 characters of its regulation text.            *)
(***************************************************************************)
\* The first at most n characters of s.
Prefix(s, n) == IF Len(s) <= n THEN s ELSE SubSeq(s, 1, n)

\* The stored result's actions, when they are a list of actions with texts.
StoredActions == Get(evaluation_result, "recommended_actions", PyList(<<>>))

ActionsWellFormed ==
    /\ tab2.view = "results"
    /\ TypeOf(StoredActions) = "list"
    /\ \A i \in 1..Len(StoredActions[2]) :
          /\ TypeOf(StoredActions[2][i]) = "dict"
          /\ \A key \in {"action", "regulation", "owner"} :
                /\ HasKey(StoredActions[2][i], key)
                /\ TypeOf(Item(StoredActions[2][i], key)) = "str"
          /\ HasKey(StoredActions[2][i], "priority")

C7_ActionTableRows ==
    ActionsWellFormed =>
        LET actions == StoredActions[2]
            table == tab2.pdf_buffer.action_table
            rows == IF Len(actions) < 6 THEN Len(actions) ELSE 6
        IN  /\ Len(table) = IF Len(actions) = 0 THEN 0 ELSE rows + 1
            /\ \A i \in 1..rows :
                  /\ table[i + 1][1] = PyStr("P" \o str(Item(actions[i], "priority")))
                  /\ table[i + 1][2] = PyStr(Prefix(Item(actions[i], "action")[2], 60))
                  /\ table[i + 1][3] = PyStr(Prefix(Item(actions[i], "regulation")[2], 30))
                  /\ table[i + 1][4] = Item(actions[i], "owner")

\* More than six actions, in falling priority, with texts over both limits.
C7_Witness ==
    /\ ActionsWellFormed
    /\ Len(StoredActions[2]) > 6
    /\ Len(Item(StoredActions[2][1], "action")[2]) > 60
    /\ Len(Item(StoredActions[2][1], "regulation")[2]) > 30
    /\ Item(StoredActions[2][1], "priority")[2] > Item(StoredActions[2][2], "priority")[2]
    /\ Len(tab2.pdf_buffer.action_table) = 7

(***************************************************************************)
(* C8.  The service is sent a request only by an evaluation whose form is  *)
(* complete (name and description not empty, a market and a data type      *)
(* chosen) and whose credential is not empty; an evaluation whose form     *)
(* fails one of these is rejected with an error and sends nothing.         *)
(***************************************************************************)
RecordComplete(f) ==
    /\ f.name # ""
    /\ f.description # ""
    /\ Len(f.markets) >= 1
    /\ Len(f.data_types) >= 1

C8_NoCallWithoutCompleteInput ==
    /\ requests # <<>>
           => /\ button = "evaluate"
              /\ RecordComplete(form)
              /\ form.api_key # ""
              /\ \A i \in 1..Len(requests) :
                    /\ requests[i][1] = form.api_key
                    /\ requests[i][2] = BuildUseCase(form)
    /\ (button = "evaluate" /\ ~(RecordComplete(form) /\ form.api_key # ""))
           => /\ requests = <<>>
              /\ response = NoResponse
              /\ EndedInError

\* An otherwise complete form without a credential was rejected.
C8_Witness ==
    /\ button = "evaluate"
    /\ RecordComplete(form)
    /\ form.api_key = ""
    /\ st_error = "Please enter your Groq API key in the sidebar"
    /\ requests = <<>>

(***************************************************************************)
(* C9.  A run of the script sends the service at most one request, and     *)
(* only a run started by the Evaluate button sends one: after a service    *)
(* error or a parse error nothing is sent again until the user evaluates   *)
(* again.                                                                  *)
(***************************************************************************)
C9_OneRequestPerEvaluation ==
    /\ Len(requests) <= 1
    /\ button # "evaluate" => requests = <<>>
    /\ response # NoResponse => Len(requests) = 1
    /\ (button = "evaluate" /\ Validate(form) = "") => Len(requests) = 1

\* A parse error, after the one request of that evaluation.
C9_Witness ==
    /\ button = "evaluate"
    /\ st_error = ParseFailedMessage
    /\ Len(requests) = 1
    /\ evaluation_result # None

(***************************************************************************)
(* C10.  For a stored pair whose result keeps to the schema, decoding the  *)
(* JSON download gives an object with exactly the keys use_case,           *)
(* evaluation and generated_at, whose use_case and evaluation equal the    *)
(* stored use case and result field for field.                             *)
(***************************************************************************)
\* A result of the schema of section 3: the head fields present and in range,
\* no present field of a category out of range.
ValidResult(v) ==
    /\ TypeOf(v) = "dict"
    /\ HasKey(v, "overall_score")
    /\ HasKey(v, "risk_level")
    /\ ~ViolatesSchema(v)

C10_ExportRoundTrip ==
    (tab2.view = "results" /\ ValidResult(evaluation_result))
        => LET decoded == json_loads(tab2.json_str)
           IN  /\ decoded.ok
               /\ TypeOf(decoded.val) = "dict"
               /\ Len(decoded.val[2]) = 3
               /\ Keys(decoded.val) = {"use_case", "evaluation", "generated_at"}
               /\ PyEq(Item(decoded.val, "use_case"), use_case_data)
               /\ PyEq(Item(decoded.val, "evaluation"), evaluation_result)
               /\ Item(decoded.val, "use_case") = use_case_data
               /\ Item(decoded.val, "evaluation") = evaluation_result
               /\ TypeOf(Item(decoded.val, "generated_at")) = "str"
               /\ Item(decoded.val, "generated_at")[2] \in Clock

\* The export of a use case whose texts hold a quote, a backslash and a line
\* break, with a result of all four categories.
C10_Witness ==
    /\ tab2.view = "results"
    /\ ValidResult(evaluation_result)
    /\ form = ChurnModel
    /\ use_case_data = BuildUseCase(ChurnModel)
    /\ Keys(Get(evaluation_result, "risks", PyDict(<<>>))) = FixedCategories
    /\ Len(tab2.json_str) > 0

(***************************************************************************)
(* C11.  The trim-and-strip-fence step is idempotent: applied to its own   *)
(* output on a response text it gives that output again.                   *)
(***************************************************************************)
C11_FenceStrippingIsIdempotent ==
    Answered => result_text(result_text(response[2])) = result_text(response[2])

\* A padded block with the tag and a sentence after it: the step took the
\* fences, the tag, the line breaks and the sentence, decoding succeeded, and
\* the output is a text the step leaves alone.
C11_Witness ==
    /\ Answered
    /\ response[2] = Fenced("json", ScenarioA) \o "\nHope this helps."
    /\ result_text(response[2]) = ScenarioA
    /\ st_success

(***************************************************************************)
(* C12.  The stored use case and the stored result are both empty or both  *)
(* set, before and after every run.  An evaluation that signals success    *)
(* stores the pair of that run: the decoded answer to the one request it   *)
(* sent, and the use case that request was made from.  Every other         *)
(* evaluation, rejected, failed or without success, leaves the pair as it  *)
(* was, as does a run with no button; Clear Form and New Evaluation empty  *)
(* both.                                                                   *)
(***************************************************************************)
C12_StoredPairIsOfOneRun ==
    [][ /\ (evaluation_result = None) <=> (use_case_data = None)
        /\ (evaluation_result' = None) <=> (use_case_data' = None)
        /\ (button' = "evaluate" /\ st_success')
              => /\ response'[1] = "Completion"
                 /\ evaluation_result' = json_loads(result_text(response'[2])).val
                 /\ use_case_data' = BuildUseCase(form')
                 /\ requests' = <<Request(use_case_data', form'.api_key)>>
        /\ (button' \in {"evaluate", "none"} /\ ~st_success')
              => /\ evaluation_result' = evaluation_result
                 /\ use_case_data' = use_case_data
        /\ button' \in {"clear", "new_evaluation"}
              => /\ evaluation_result' = None
                 /\ use_case_data' = None
      ]_vars

\* A stored pair of one use case, then an evaluation of another use case that
\* the service answered with an undecodable text: the pair is still the first.
C12_Witness ==
    /\ Answered
    /\ ~Decoded.ok
    /\ evaluation_result # None
    /\ use_case_data # None
    /\ use_case_data # BuildUseCase(form)
    /\ tab2.view = "results"

(***************************************************************************)
(* C13.  An evaluation that passed the input checks has ended in exactly   *)
(* one of two ways: its result is stored and success is signalled, or an   *)
(* error message is shown; never in neither, whatever the service          *)
(* answered.                                                               *)
(***************************************************************************)
C13_EvaluationEndsInResultOrError ==
    (button = "evaluate" /\ Validate(form) = "")
        => LET succeeded == /\ st_success
                            /\ Answered
                            /\ evaluation_result = Decoded.val
                            /\ use_case_data = BuildUseCase(form)
               failed == st_error # ""
           IN  (succeeded \/ failed) /\ ~(succeeded /\ failed)

=============================================================================
